---- MODULE Spec2Model ----
(***************************************************************************)
(* A model of src/invoice_extractor.py: the response normalisation of      *)
(* InvoiceExtractor.extract_data, the batch loop of process_folder and the *)
(* CSV projection of create_csv.                                           *)
(*                                                                         *)
(* Python strings are TLA+ strings; positions are Python's (0-based) in    *)
(* Find, RFind and Slice.  The TLA+ lexer has no backquote inside string   *)
(* literals, so the backquote character is written "~": the markdown fence *)
(* marker of the source (three backquotes) reads "~~~" throughout.         *)
(*                                                                         *)
(* Python values are tagged records: PyNone, PyStr(s), PyNum(n); a dict is *)
(* a function from its keys.                                               *)
(***************************************************************************)
EXTENDS Integers, Sequences, FiniteSets, TLC

VARIABLES
    \* process_folder (Spec)
    pc,                \* position in process_folder
    pdf_files,         \* the names folder.glob("*.pdf") returned
    idx,               \* enumerate index of the next document (1-based)
    all_results,       \* the list all_results
    successful_count,  \* the counter successful_count
    json_files,        \* the per-document JSON files written, in order
    csv_file,          \* invoices_summary.csv: [written, header, rows]
    tally,             \* the final summary printed: [printed, successful, failed]
    last,              \* the document of the latest loop iteration and what extract_data did with it
    \* the normaliser alone (SpecNorm)
    sample,            \* the oracle text under normalisation, with the parts it was built from
    norm,              \* "ready", or the outcome of normalising sample
    \* the assembly state machine of the specification (SpecAsm)
    current,           \* the open InvoiceAccumulator, or Empty
    completed,         \* the completed invoices, in order
    page,              \* the page result consumed by the latest step
    fed,               \* number of page results consumed
    flushed            \* whether the end-of-document flush has run

batchVars == <<pc, pdf_files, idx, all_results, successful_count, json_files, csv_file, tally, last>>
normVars == <<sample, norm>>
asmVars == <<current, completed, page, fed, flushed>>
vars == <<batchVars, normVars, asmVars>>

-----------------------------------------------------------------------------
(* Python values *)

PyNone == [t |-> "none"]
PyStr(s) == [t |-> "str", s |-> s]
PyNum(n) == [t |-> "num", n |-> n]
EmptyDict == [k \in {} |-> PyNone]

\* dict.get(key): the value, or None when the key is absent
Get(d, k) == IF k \in DOMAIN d THEN d[k] ELSE PyNone

Min(S) == CHOOSE x \in S : \A y \in S : x <= y
Max(S) == CHOOSE x \in S : \A y \in S : x >= y

-----------------------------------------------------------------------------
(* Python str operations *)

\* the character at 1-based position i
Ch(s, i) == SubSeq(s, i, i)

Whitespace == {" ", "\n", "\t", "\r"}

\* text.find(sub, start): lowest 0-based index >= start where sub occurs, else -1
Find(text, sub, start) ==
    LET hits == {k \in start..(Len(text) - Len(sub)) : SubSeq(text, k + 1, k + Len(sub)) = sub}
    IN IF hits = {} THEN -1 ELSE Min(hits)

\* text.rfind(sub): highest 0-based index where sub occurs, else -1
RFind(text, sub) ==
    LET hits == {k \in 0..(Len(text) - Len(sub)) : SubSeq(text, k + 1, k + Len(sub)) = sub}
    IN IF hits = {} THEN -1 ELSE Max(hits)

\* sub in text
Contains(text, sub) == Find(text, sub, 0) >= 0

\* a slice index as Python resolves it: negative counts from the end, then clamped
SliceIndex(text, k) ==
    LET n == Len(text)
        r == IF k < 0 THEN k + n ELSE k
    IN IF r < 0 THEN 0 ELSE IF r > n THEN n ELSE r

\* text[a:b]
Slice(text, a, b) == SubSeq(text, SliceIndex(text, a) + 1, SliceIndex(text, b))

\* text[:n]
Prefix(text, n) == Slice(text, 0, n)

\* text.strip()
Strip(text) ==
    LET keep == {k \in 1..Len(text) : Ch(text, k) \notin Whitespace}
    IN IF keep = {} THEN "" ELSE SubSeq(text, Min(keep), Max(keep))

\* text.replace(old, new) for a one-character old
RECURSIVE ReplaceFrom(_, _, _, _)
ReplaceFrom(text, old, new, i) ==
    IF i > Len(text) THEN ""
    ELSE (IF Ch(text, i) = old THEN new ELSE Ch(text, i)) \o ReplaceFrom(text, old, new, i + 1)

Replace(text, old, new) == ReplaceFrom(text, old, new, 1)

\* whether position i starts  \s*[}\]]
RECURSIVE ClosesAfterSpace(_, _)
ClosesAfterSpace(text, i) ==
    IF i > Len(text) THEN FALSE
    ELSE IF Ch(text, i) \in {"}", "]"} THEN TRUE
    ELSE IF Ch(text, i) \in Whitespace THEN ClosesAfterSpace(text, i + 1)
    ELSE FALSE

\* re.sub(r',(\s*[}\]])', r'\1', text): a match consumes no comma but its first
\* character, so dropping each comma that starts a match is the same rewrite
RECURSIVE DropTrailingCommasFrom(_, _)
DropTrailingCommasFrom(text, i) ==
    IF i > Len(text) THEN ""
    ELSE (IF Ch(text, i) = "," /\ ClosesAfterSpace(text, i + 1) THEN "" ELSE Ch(text, i))
         \o DropTrailingCommasFrom(text, i + 1)

DropTrailingCommas(text) == DropTrailingCommasFrom(text, 1)

-----------------------------------------------------------------------------
(* json.loads, for objects whose values are strings, non-negative integers *)
(* or null (the texts the model feeds it use nothing else).  A failure     *)
(* carries the decoder's message without its position suffix.              *)

Digits == {"0", "1", "2", "3", "4", "5", "6", "7", "8", "9"}

DigitVal(c) == CHOOSE n \in 0..9 : ToString(n) = c

JsonFail(m) == [ok |-> FALSE, msg |-> m]

\* position of the first non-whitespace character at or after i
RECURSIVE SkipWs(_, _)
SkipWs(s, i) == IF i <= Len(s) /\ Ch(s, i) \in Whitespace THEN SkipWs(s, i + 1) ELSE i

\* the body of a string literal, from the character after its opening quote
RECURSIVE ScanString(_, _, _)
ScanString(s, i, acc) ==
    IF i > Len(s) THEN JsonFail("Unterminated string starting at")
    ELSE LET c == Ch(s, i) IN
         IF c = "\"" THEN [ok |-> TRUE, val |-> acc, next |-> i + 1]
         ELSE IF c = "\\" THEN
             (IF i + 1 > Len(s) THEN JsonFail("Unterminated string starting at")
              ELSE LET e == Ch(s, i + 1) IN
                   IF e = "n" THEN ScanString(s, i + 2, acc \o "\n")
                   ELSE IF e = "t" THEN ScanString(s, i + 2, acc \o "\t")
                   ELSE IF e \in {"\"", "\\", "/"} THEN ScanString(s, i + 2, acc \o e)
                   ELSE JsonFail("Invalid \\escape"))
         ELSE IF c \in {"\n", "\t", "\r"} THEN JsonFail("Invalid control character at")
         ELSE ScanString(s, i + 1, acc \o c)

\* the digits of an integer literal after its first
RECURSIVE ScanDigits(_, _, _)
ScanDigits(s, i, acc) ==
    IF i <= Len(s) /\ Ch(s, i) \in Digits
    THEN ScanDigits(s, i + 1, 10 * acc + DigitVal(Ch(s, i)))
    ELSE [ok |-> TRUE, val |-> PyNum(acc), next |-> i]

\* a string literal as a value
StringValue(r) == IF r.ok THEN [ok |-> TRUE, val |-> PyStr(r.val), next |-> r.next] ELSE r

ScanValue(s, i) ==
    IF i > Len(s) THEN JsonFail("Expecting value")
    ELSE IF Ch(s, i) = "\"" THEN StringValue(ScanString(s, i + 1, ""))
    ELSE IF Ch(s, i) = "0" THEN [ok |-> TRUE, val |-> PyNum(0), next |-> i + 1]
    ELSE IF Ch(s, i) \in Digits THEN ScanDigits(s, i + 1, DigitVal(Ch(s, i)))
    ELSE IF i + 3 <= Len(s) /\ SubSeq(s, i, i + 3) = "null"
    THEN [ok |-> TRUE, val |-> PyNone, next |-> i + 4]
    ELSE JsonFail("Expecting value")

\* The members of an object, from the opening quote of a key: the key, the
\* colon, the value, then "}" or "," and the next member.  A repeated key keeps
\* its last value.
RECURSIVE ScanMembers(_, _, _)
RECURSIVE AfterKey(_, _, _)
RECURSIVE AfterColon(_, _, _, _)
RECURSIVE AfterValue(_, _, _, _)
RECURSIVE AfterMember(_, _, _)

ScanMembers(s, i, d) ==
    IF i > Len(s) \/ Ch(s, i) # "\""
    THEN JsonFail("Expecting property name enclosed in double quotes")
    ELSE AfterKey(s, d, ScanString(s, i + 1, ""))

AfterKey(s, d, k) ==
    IF ~k.ok THEN k ELSE AfterColon(s, d, k.val, SkipWs(s, k.next))

AfterColon(s, d, key, colon) ==
    IF colon > Len(s) \/ Ch(s, colon) # ":" THEN JsonFail("Expecting ':' delimiter")
    ELSE AfterValue(s, d, key, ScanValue(s, SkipWs(s, colon + 1)))

AfterValue(s, d, key, v) ==
    IF ~v.ok THEN v ELSE AfterMember(s, (key :> v.val) @@ d, SkipWs(s, v.next))

AfterMember(s, d, sep) ==
    IF sep <= Len(s) /\ Ch(s, sep) = "}" THEN [ok |-> TRUE, val |-> d, next |-> sep + 1]
    ELSE IF sep <= Len(s) /\ Ch(s, sep) = "," THEN ScanMembers(s, SkipWs(s, sep + 1), d)
    ELSE JsonFail("Expecting ',' delimiter")

\* an object, from the character after its "{"
ScanObject(s, j) ==
    IF j <= Len(s) /\ Ch(s, j) = "}"
    THEN [ok |-> TRUE, val |-> EmptyDict, next |-> j + 1]
    ELSE ScanMembers(s, j, EmptyDict)

\* nothing but whitespace may follow the object
WholeText(s, r) ==
    IF ~r.ok THEN r
    ELSE IF SkipWs(s, r.next) <= Len(s) THEN JsonFail("Extra data")
    ELSE [ok |-> TRUE, val |-> r.val]

LoadsFrom(s, i) ==
    IF i > Len(s) \/ Ch(s, i) # "{" THEN JsonFail("Expecting value")
    ELSE WholeText(s, ScanObject(s, SkipWs(s, i + 1)))

\* json.loads(s): [ok |-> TRUE, val |-> dict] or [ok |-> FALSE, msg |-> str(e)]
JsonLoads(s) == LoadsFrom(s, SkipWs(s, 1))

-----------------------------------------------------------------------------
(* extract_data: the clean-up of the oracle's reply, lines 88-122 *)

FenceJson == "~~~json"
Fence == "~~~"

\* text[start:end].strip() with end = text.find(fence, start): find returns -1
\* when no fence follows, and text[start:-1] is then taken
CutFenced(text, start) == Strip(Slice(text, start, Find(text, Fence, start)))

\* lines 92-99
StripFence(text) ==
    IF Contains(text, FenceJson) THEN CutFenced(text, Find(text, FenceJson, 0) + 7)
    ELSE IF Contains(text, Fence) THEN CutFenced(text, Find(text, Fence, 0) + 3)
    ELSE text

\* lines 102-103
JsonStart(text) == Find(text, "{", 0)

\* JsonEnd without the + 1 that makes the bound exclusive
JsonEnd_Inclusive(text) == RFind(text, "}")

JsonEnd(text) == RFind(text, "}") + 1

\* lines 114-117: quotes, newlines, trailing commas
Cleanup(json_text) ==
    DropTrailingCommas(Replace(Replace(json_text, "'", "\""), "\n", " "))

ErrorDict(message) == "error" :> PyStr(message)

\* lines 118-120: the second json.loads, after the clean-up
Retried(json_text, cleaned, retry) ==
    IF retry.ok
    THEN [data |-> retry.val, calls |-> <<json_text, cleaned>>, parsed |-> TRUE]
    ELSE [data |-> ErrorDict("JSON parsing failed: " \o retry.msg),
          calls |-> <<json_text, cleaned>>, parsed |-> FALSE]

\* lines 110-118
Recover(json_text, cleaned) == Retried(json_text, cleaned, JsonLoads(cleaned))

\* lines 108-110: the first json.loads, on the substring as found
Loaded(json_text, strict) ==
    IF strict.ok
    THEN [data |-> strict.val, calls |-> <<json_text>>, parsed |-> TRUE]
    ELSE Recover(json_text, Cleanup(json_text))

\* ParseJsonText with the clean-up applied before the first json.loads
ParseJsonText_CleanupFirst(json_text) ==
    Loaded(Cleanup(json_text), JsonLoads(Cleanup(json_text)))

\* lines 108-120.  calls lists the arguments json.loads was called with, in
\* order; parsed tells whether a json.loads call returned.
ParseJsonText(json_text) == Loaded(json_text, JsonLoads(json_text))

\* lines 105-122
ParseBetween(text, json_start, json_end) ==
    IF json_start >= 0 /\ json_end > json_start
    THEN ParseJsonText(Slice(text, json_start, json_end))
    ELSE [data |-> ErrorDict("No valid JSON found in response"), calls |-> <<>>, parsed |-> FALSE]

\* lines 101-122 on the fence-stripped text
ParseBounded(text) == ParseBetween(text, JsonStart(text), JsonEnd(text))

\* lines 89-122: response.choices[0].message.content.strip() onwards
Normalize(content) == ParseBounded(StripFence(Strip(content)))

-----------------------------------------------------------------------------
(* The oracle replies the normaliser is run on: a JSON body, with or       *)
(* without a fence around it, between a leading and a trailing text.       *)

\* valid JSON objects, each with the dict it denotes
ValidObjects ==
    { [text |-> "{\"a\":1}", value |-> ("a" :> PyNum(1))],
      [text |-> "{}", value |-> EmptyDict],
      [text |-> "{\"a\":\"it's\"}", value |-> ("a" :> PyStr("it's"))],
      [text |-> "{\"a\":\"x\\ny\"}", value |-> ("a" :> PyStr("x\ny"))],
      [text |-> "{ \"a\" : 10 ,\n \"b\" : null }", value |-> ("a" :> PyNum(10)) @@ ("b" :> PyNone)],
      [text |-> "{\"a\":1,\"a\":2}", value |-> ("a" :> PyNum(2))],
      [text |-> "{\"a\":\"~~~\"}", value |-> ("a" :> PyStr("~~~"))] }

ValidBodies == {o.text : o \in ValidObjects}

ObjectOf(body) == (CHOOSE o \in ValidObjects : o.text = body).value

\* texts that are no valid JSON: single quotes, a trailing comma, a raw newline
\* inside a string, an apostrophe with a trailing comma, a bare key
BrokenBodies ==
    { "{'a':1}",
      "{\"a\":1,}",
      "{\"a\":\"x\ny\"}",
      "{\"a\":\"it's\",}",
      "{a:1}" }

Bodies == ValidBodies \cup BrokenBodies

Leads == {"", "Here is the result:\n", "Fields {a} follow: ", "No ~~~ needed. "}
Trails == {"", "\nThanks!", "\n(end of } object)", "\nsee {a}"}
FenceKinds == {"none", "json", "bare", "json_open", "bare_open"}

\* the reply text for a choice of parts
Wrap(lead, fence, body, trail) ==
    CASE fence = "none" -> lead \o body \o trail
      [] fence = "json" -> lead \o FenceJson \o "\n" \o body \o "\n" \o Fence \o trail
      [] fence = "bare" -> lead \o Fence \o "\n" \o body \o "\n" \o Fence \o trail
      [] fence = "json_open" -> lead \o FenceJson \o "\n" \o body \o trail
      [] fence = "bare_open" -> lead \o Fence \o "\n" \o body \o trail

Samples ==
    { [lead |-> l, fence |-> f, body |-> b, trail |-> t, text |-> Wrap(l, f, b, t)] :
        l \in Leads, f \in FenceKinds, b \in Bodies, t \in Trails }

-----------------------------------------------------------------------------
(* pdf_to_images and extract_data *)

MaxDocs == 2
MaxPages == 2

\* A PDF is the sequence of its pages.  "corrupt" is a page whose get_pixmap
\* raises; "start" is a page on which an invoice begins, "other" any other page.
PageKinds == {"start", "other", "corrupt"}

Documents == UNION {[1..n -> PageKinds] : n \in 1..MaxPages}

\* pdf_to_images skipping the pages that cannot be rendered
pdf_to_images_skip_corrupt(pages) ==
    LET Renders(k) == pages[k] # "corrupt"
    IN [ok |-> TRUE, images |-> SelectSeq([k \in 1..Len(pages) |-> k], Renders)]

\* lines 19-31: one image per page, in order; the first page that cannot be
\* rendered raises out of the loop
pdf_to_images(pages) ==
    LET bad == {k \in 1..Len(pages) : pages[k] = "corrupt"}
    IN IF bad # {}
       THEN [ok |-> FALSE, msg |-> "cannot render page " \o ToString(Min(bad))]
       ELSE [ok |-> TRUE, images |-> [k \in 1..Len(pages) |-> k]]

\* lines 75-80: the prompt, then one image_url item per image
Content(images) ==
    <<[type |-> "text"]>> \o [k \in 1..Len(images) |-> [type |-> "image_url", image |-> images[k]]]

RECURSIVE Repeat(_, _)
Repeat(c, n) == IF n = 0 THEN "" ELSE c \o Repeat(c, n - 1)

\* the messages of the exceptions the client raises: a short one and one of 250 characters
LongMessage == Repeat("rate limit ", 22) \o "exceeded"
ClientErrors == {"Connection error.", LongMessage}

\* the texts the oracle replies with in a batch run
Replies ==
    { "~~~json\n{\"invoiceNumber\":\"INV-1\",\"vendorName\":\"ABC\",\"totalAmount\":1500,\"tax\":0}\n~~~",
      "{\"invoiceNumber\":null,\"customerName\":\"XYZ\"}",
      "{\"vendorName\":'ABC',\n\"dueDate\":\"2025-02-15\",}",
      "{}",
      "{\"error\":\"unreadable scan\"}",
      "{\"error\":5,\"invoiceNumber\":\"INV-2\"}",
      "{\"error\":null}",
      "I cannot read this invoice.",
      "{invoiceNumber: 3}" }

\* what the chat.completions.create call of lines 82-86 does: it raises, or it
\* returns a message whose content is None or a text
OracleOutcomes ==
    {[kind |-> "raise", msg |-> m] : m \in ClientErrors}
        \cup {[kind |-> "no_content"]}
        \cup {[kind |-> "text", content |-> t] : t \in Replies}

NotCalled == [kind |-> "none"]

\* Normalize on each reply of a batch run
Normalized == [t \in Replies |-> Normalize(t)]

\* lines 33-125: every exception raised inside is caught at line 124.  requests
\* lists the contents sent to the oracle.
extract_data(pages, oracle) ==
    LET imgs == pdf_to_images(pages)
    IN IF ~imgs.ok
       THEN [data |-> ErrorDict("Extraction error: " \o imgs.msg),
             calls |-> <<>>, parsed |-> FALSE, requests |-> <<>>]
       ELSE IF oracle.kind = "raise"
       THEN [data |-> ErrorDict("Extraction error: " \o oracle.msg),
             calls |-> <<>>, parsed |-> FALSE, requests |-> <<Content(imgs.images)>>]
       ELSE IF oracle.kind = "no_content"
       THEN [data |-> ErrorDict("Extraction error: 'NoneType' object has no attribute 'strip'"),
             calls |-> <<>>, parsed |-> FALSE, requests |-> <<Content(imgs.images)>>]
       ELSE Normalized[oracle.content] @@ [requests |-> <<Content(imgs.images)>>]

-----------------------------------------------------------------------------
(* create_csv *)

DataFields ==
    <<"invoiceNumber", "invoiceDate", "vendorName", "customerName", "totalAmount",
      "subtotal", "tax", "dueDate", "lineItemsCount", "lineItemsSummary">>

\* lines 130-134
FieldNames == <<"filename">> \o DataFields \o <<"status", "error">>

Range(seq) == {seq[k] : k \in DOMAIN seq}

\* ErrorRow without the [:200]
ErrorRow_NoTruncate(result) ==
    ("filename" :> PyStr(result.filename))
    @@ ("status" :> PyStr("error"))
    @@ ("error" :> result.error)
    @@ [f \in Range(FieldNames) |-> PyNone]

\* lines 146-151
ErrorRow(result) ==
    LET error == IF "error" \in DOMAIN result THEN result.error ELSE PyStr("Unknown error")
    IN ("filename" :> PyStr(result.filename))
       @@ ("status" :> PyStr("error"))
       @@ ("error" :> PyStr(Prefix(error.s, 200)))
       @@ [f \in Range(FieldNames) |-> PyNone]

\* lines 155-193
SuccessRow(result) ==
    ("filename" :> PyStr(result.filename))
    @@ ("status" :> PyStr("success"))
    @@ ("error" :> PyNone)
    @@ [f \in Range(DataFields) |-> Get(result.data, f)]

\* lines 145, 154
RowOf(result) == IF result.status = "error" THEN ErrorRow(result) ELSE SuccessRow(result)

\* the text csv.DictWriter writes for a value: nothing for None, str(value) otherwise
CsvCell(v) ==
    CASE v.t = "none" -> ""
      [] v.t = "str" -> v.s
      [] v.t = "num" -> ToString(v.n)

\* line 195
WriteRow(row) == [f \in Range(FieldNames) |-> CsvCell(row[f])]

\* CsvRows writing no row for an error result
CsvRows_SkipErrors(results) ==
    LET Succeeded(r) == r.status # "error"
        kept == SelectSeq(results, Succeeded)
    IN [k \in 1..Len(kept) |-> WriteRow(RowOf(kept[k]))]

\* lines 142-195: one writerow per result, in order
CsvRows(results) == [k \in 1..Len(results) |-> WriteRow(RowOf(results[k]))]

\* line 150 slices result['error']: a TypeError unless it is a str
CsvRaises(results) ==
    \E k \in 1..Len(results) :
        /\ results[k].status = "error"
        /\ "error" \in DOMAIN results[k]
        /\ results[k].error.t # "str"

\* lines 138-195
create_csv(results) == [written |-> TRUE, header |-> FieldNames, rows |-> CsvRows(results)]

-----------------------------------------------------------------------------
(* process_folder *)

\* the names of the n PDFs of the folder
FileName(k) == "invoice" \o ToString(k) \o ".pdf"
PdfFiles(n) == [k \in 1..n |-> FileName(k)]

\* Path.stem of a name ending in ".pdf"
Stem(name) == Slice(name, 0, Len(name) - 4)

\* ResultOf recording pdf_file.stem where pdf_file.name belongs
ResultOf_StemName(name, data) ==
    IF "error" \in DOMAIN data
    THEN [filename |-> Stem(name), status |-> "error", error |-> data["error"]]
    ELSE [filename |-> Stem(name), status |-> "success", data |-> data]

\* lines 222-235
ResultOf(name, data) ==
    IF "error" \in DOMAIN data
    THEN [filename |-> name, status |-> "error", error |-> data["error"]]
    ELSE [filename |-> name, status |-> "success", data |-> data]

\* line 228 slices data['error'] for the status line: a TypeError unless it is a str
StatusLineRaises(data) == "error" \in DOMAIN data /\ data["error"].t # "str"

Init ==
    /\ pc = "start"
    /\ pdf_files \in {PdfFiles(n) : n \in 0..MaxDocs}
    /\ idx = 1
    /\ all_results = <<>>
    /\ successful_count = 0
    /\ json_files = <<>>
    /\ csv_file = [written |-> FALSE]
    /\ tally = [printed |-> FALSE]
    /\ last = [seen |-> FALSE]
    /\ sample = [text |-> ""]
    /\ norm = [done |-> TRUE]
    /\ current = [open |-> FALSE]
    /\ completed = <<>>
    /\ page = [seen |-> FALSE]
    /\ fed = 0
    /\ flushed = TRUE

\* lines 199-212: nothing is written when the folder holds no PDF
ListFolder ==
    /\ pc = "start"
    /\ pc' = IF pdf_files = <<>> THEN "done" ELSE "loop"
    /\ UNCHANGED <<pdf_files, idx, all_results, successful_count, json_files, csv_file, tally,
                   last, normVars, asmVars>>

\* lines 221-254, with ex what extract_data returned.  No handler surrounds the
\* loop body, so the TypeError of line 228 leaves process_folder.
RecordResult(pages, oracle, ex) ==
    /\ last' = [seen |-> TRUE, pages |-> pages,
                oracle |-> IF ex.requests = <<>> THEN NotCalled ELSE oracle,
                data |-> ex.data, parsed |-> ex.parsed, requests |-> ex.requests]
    /\ IF StatusLineRaises(ex.data)
       THEN /\ pc' = "crashed"
            /\ UNCHANGED <<idx, all_results, successful_count, json_files>>
       ELSE /\ pc' = "loop"
            /\ idx' = idx + 1
            /\ all_results' = Append(all_results, ResultOf(pdf_files[idx], ex.data))
            /\ successful_count' =
                   IF "error" \in DOMAIN ex.data THEN successful_count ELSE successful_count + 1
            /\ json_files' = Append(json_files,
                                    [name |-> Stem(pdf_files[idx]) \o ".json", content |-> ex.data])

\* lines 215-254: one iteration of the loop
ProcessDocument ==
    /\ pc = "loop"
    /\ idx <= Len(pdf_files)
    /\ \E pages \in Documents, oracle \in OracleOutcomes :
           RecordResult(pages, oracle, extract_data(pages, oracle))
    /\ UNCHANGED <<pdf_files, csv_file, tally, normVars, asmVars>>

\* lines 256-272: the CSV summary and the tally
Summarize ==
    /\ pc = "loop"
    /\ idx > Len(pdf_files)
    /\ IF CsvRaises(all_results)
       THEN /\ pc' = "crashed"
            /\ UNCHANGED <<csv_file, tally>>
       ELSE /\ pc' = "done"
            /\ csv_file' = create_csv(all_results)
            /\ tally' = [printed |-> TRUE, successful |-> successful_count,
                         failed |-> Len(pdf_files) - successful_count]
    /\ UNCHANGED <<pdf_files, idx, all_results, successful_count, json_files, last, normVars, asmVars>>

Next == ListFolder \/ ProcessDocument \/ Summarize

Spec == Init /\ [][Next]_vars

-----------------------------------------------------------------------------
(* SpecNorm: the normaliser applied to one reply *)

NormReady == [done |-> FALSE]

BatchIdle ==
    /\ pc = "idle"
    /\ pdf_files = <<>>
    /\ idx = 1
    /\ all_results = <<>>
    /\ successful_count = 0
    /\ json_files = <<>>
    /\ csv_file = [written |-> FALSE]
    /\ tally = [printed |-> FALSE]
    /\ last = [seen |-> FALSE]

AsmIdle ==
    /\ current = [open |-> FALSE]
    /\ completed = <<>>
    /\ page = [seen |-> FALSE]
    /\ fed = 0
    /\ flushed = TRUE

InitNorm ==
    /\ sample \in Samples
    /\ norm = NormReady
    /\ BatchIdle
    /\ AsmIdle

NormalizeReply ==
    /\ ~norm.done
    /\ norm' = [done |-> TRUE] @@ Normalize(sample.text)
    /\ UNCHANGED <<sample, batchVars, asmVars>>

NextNorm == NormalizeReply

SpecNorm == InitNorm /\ [][NextNorm]_vars

-----------------------------------------------------------------------------
(* SpecAsm: the invoice assembly state machine.  The source file holds no  *)
(* code for it; it is written from section 4.2 of the specification.       *)

MaxAsmPages == 2

AsmFieldMaps ==
    { inv @@ tot :
        inv \in {EmptyDict} \cup {("invoiceNumber" :> v) : v \in {PyNone, PyStr("A"), PyStr("B")}},
        tot \in {EmptyDict, ("totalAmount" :> PyNum(10))} }

AsmFieldNames == {"invoiceNumber", "totalAmount"}

\* the per-page results: Error(reason), or Ok with the flags and the data of the page
PageResults ==
    {[ok |-> FALSE, reason |-> "no JSON object found"]}
        \cup {[ok |-> TRUE, isStart |-> s, isContinuation |-> c, isEnd |-> e,
               fields |-> f, lineItems |-> li] :
                 s \in BOOLEAN, c \in BOOLEAN, e \in BOOLEAN,
                 f \in AsmFieldMaps, li \in {<<>>, <<"x">>}}

Closed == [open |-> FALSE]

\* a new accumulator seeded from a page
Seed(p) == [open |-> TRUE, fields |-> p.fields, lineItems |-> p.lineItems]

\* a CompletedInvoice: the accumulator as it is when closed out
Snapshot(acc) == [fields |-> acc.fields, lineItems |-> acc.lineItems]

\* MergeNonNull as a plain update: every incoming value overwrites
MergeNonNull_Update(fields, incoming) == incoming @@ fields

\* the isEnd merge: a non-null incoming value overwrites, a null one is dropped
MergeNonNull(fields, incoming) ==
    [f \in {g \in DOMAIN incoming : incoming[g] # PyNone} |-> incoming[f]] @@ fields

\* start / continuation handling: [current, completed] after it
AfterStart(p, cur, done) ==
    IF p.isStart
    THEN [current |-> Seed(p),
          completed |-> IF cur.open THEN Append(done, Snapshot(cur)) ELSE done]
    ELSE IF p.isContinuation /\ cur.open
    THEN [current |-> [cur EXCEPT !.lineItems = @ \o p.lineItems], completed |-> done]
    ELSE [current |-> cur, completed |-> done]

\* end handling, which fires after start / continuation handling on the same page
AfterEnd(p, st) ==
    IF p.isEnd /\ st.current.open
    THEN [current |-> Closed,
          completed |-> Append(st.completed,
                               [fields |-> MergeNonNull(st.current.fields, p.fields),
                                lineItems |-> st.current.lineItems]),
          closed |-> TRUE]
    ELSE [current |-> st.current, completed |-> st.completed, closed |-> FALSE]

\* one page result: an Error result is skipped
Assemble(p, cur, done) ==
    IF p.ok THEN AfterEnd(p, AfterStart(p, cur, done))
    ELSE [current |-> cur, completed |-> done, closed |-> FALSE]

InitAsm ==
    /\ current = Closed
    /\ completed = <<>>
    /\ page = [seen |-> FALSE]
    /\ fed = 0
    /\ flushed = FALSE
    /\ sample = [text |-> ""]
    /\ norm = [done |-> TRUE]
    /\ BatchIdle

Consumed(p, st) ==
    /\ current' = st.current
    /\ completed' = st.completed
    /\ page' = [seen |-> TRUE, result |-> p, closedByEnd |-> st.closed]

ConsumePage ==
    /\ ~flushed
    /\ fed < MaxAsmPages
    /\ fed' = fed + 1
    /\ \E p \in PageResults : Consumed(p, Assemble(p, current, completed))
    /\ UNCHANGED <<flushed, batchVars, normVars>>

\* after the last page: a still open accumulator is closed out
EndOfDocument ==
    /\ ~flushed
    /\ flushed' = TRUE
    /\ current' = Closed
    /\ completed' = IF current.open THEN Append(completed, Snapshot(current)) ELSE completed
    /\ UNCHANGED <<page, fed, batchVars, normVars>>

NextAsm == ConsumePage \/ EndOfDocument

SpecAsm == InitAsm /\ [][NextAsm]_vars

-----------------------------------------------------------------------------
(* Properties of process_folder, checked under Spec *)

HasCorrupt(pages) == \E k \in 1..Len(pages) : pages[k] = "corrupt"
HasRenderable(pages) == \E k \in 1..Len(pages) : pages[k] # "corrupt"
ConsecutiveStarts(pages) ==
    \E k \in 1..(Len(pages) - 1) : pages[k] = "start" /\ pages[k + 1] = "start"

\* the result of the latest iteration, when it completed
LastResult == all_results[Len(all_results)]

\* the result entries recorded for a document
RecordsOf(name) == {k \in 1..Len(all_results) : all_results[k].filename = name}

StartsWith(text, head) == Prefix(text, Len(head)) = head

\* C1: whatever rasterisation and the oracle do for each document of a
\* non-empty batch, no failure leaves process_folder, and once it is done every
\* document has a result entry, the CSV summary is written and the tally is
\* printed.
C1_BatchAlwaysCompletes ==
    /\ pc # "crashed"
    /\ (pc = "done" /\ pdf_files # <<>>) =>
           /\ Len(all_results) = Len(pdf_files)
           /\ csv_file.written
           /\ tally.printed

InvoiceCount(result) ==
    IF result.status = "success" /\ result.data # EmptyDict THEN 1 ELSE 0

RowsDue(result) == IF InvoiceCount(result) >= 1 THEN InvoiceCount(result) ELSE 1

RECURSIVE SumRowsDue(_)
SumRowsDue(results) ==
    IF results = <<>> THEN 0 ELSE RowsDue(Head(results)) + SumRowsDue(Tail(results))

\* C6: the CSV holds, in document order, InvoiceCount rows for a document with
\* one or more invoices and one row for an error document or a successful
\* document with no invoice; no document is left without a row.
C6_RowCount ==
    csv_file.written =>
        /\ Len(csv_file.rows) = SumRowsDue(all_results)
        /\ \A k \in 1..Len(all_results) :
               /\ k <= Len(csv_file.rows)
               /\ csv_file.rows[k].filename = all_results[k].filename
        /\ csv_file.header = FieldNames

C6_Witness ==
    /\ csv_file.written
    /\ Len(csv_file.rows) = 2
    /\ \E j, k \in 1..Len(all_results) :
           /\ all_results[j].status = "error"
           /\ all_results[k].status = "success"
           /\ all_results[k].data # EmptyDict

\* C7: a reply whose bounded substring parses as a JSON object is handled as Ok
\* whatever its keys: the document's result has status success and carries
\* that object.
C7_ParsedIsHandledAsOk ==
    (last.seen /\ last.parsed) =>
        /\ pc # "crashed"
        /\ LastResult.status = "success"
        /\ LastResult.data = last.data

\* C10: every CSV row has the status of the result it was written from; an
\* error row has its ten data columns empty and an error text of at most 200
\* characters; a success row has an empty error column.
C10_RowShapes ==
    csv_file.written =>
        \A k \in 1..Len(csv_file.rows) :
            LET row == csv_file.rows[k] IN
            /\ row.status = all_results[k].status
            /\ row.status \in {"error", "success"}
            /\ row.status = "error" =>
                   /\ \A f \in Range(DataFields) : row[f] = ""
                   /\ Len(row.error) <= 200
                   /\ row.error = Prefix(all_results[k].error.s, 200)
            /\ row.status = "success" => row.error = ""

C10_Witness ==
    /\ csv_file.written
    /\ \E j, k \in 1..Len(csv_file.rows) :
           /\ csv_file.rows[j].status = "error"
           /\ Len(csv_file.rows[j].error) = 200
           /\ Len(all_results[j].error.s) > 200
           /\ csv_file.rows[k].status = "success"
           /\ csv_file.rows[k].invoiceNumber = "INV-1"
           /\ csv_file.rows[k].totalAmount = "1500"

-----------------------------------------------------------------------------
(* Properties of the normaliser, checked under SpecNorm *)

\* free of braces and of fence markers
Plain(text) == ~Contains(text, "{") /\ ~Contains(text, "}") /\ ~Contains(text, Fence)

\* C2 as claimed: a valid JSON object, fenced or not, is recovered exactly
\* whatever the text before and after it holds.
C2_RoundTripAnySurroundings ==
    (/\ norm.done
     /\ sample.body \in ValidBodies
     /\ ~Contains(sample.body, Fence)
     /\ sample.fence \in {"none", "json", "bare"}) =>
        /\ norm.parsed
        /\ norm.data = ObjectOf(sample.body)

\* C2 as amended: a valid JSON object that holds no fence marker, fenced or
\* not, is recovered exactly when the text before and after it holds no brace
\* and no fence marker.
C2_RoundTripPlainSurroundings ==
    (/\ norm.done
     /\ sample.body \in ValidBodies
     /\ ~Contains(sample.body, Fence)
     /\ sample.fence \in {"none", "json", "bare"}
     /\ Plain(sample.lead)
     /\ Plain(sample.trail)) =>
        /\ norm.parsed
        /\ norm.data = ObjectOf(sample.body)

C2_Witness ==
    /\ norm.done
    /\ sample.text = "Here is the result:\n~~~json\n{\"a\":1}\n~~~\nThanks!"
    /\ norm.data = ("a" :> PyNum(1))

\* C8: after an opening fence that is never closed, a complete JSON object is
\* still found and parsed.
C8_UnclosedFenceStillParses ==
    (/\ norm.done
     /\ sample.fence \in {"json_open", "bare_open"}
     /\ sample.body \in ValidBodies
     /\ ~Contains(sample.body, Fence)
     /\ Plain(sample.lead)
     /\ Plain(sample.trail)) =>
        /\ norm.parsed
        /\ norm.data = ObjectOf(sample.body)

\* C9: json.loads is first called on the substring from the first "{" to the
\* last "}" as it stands in the reply; the clean-up is applied only after that
\* call failed and is followed by one more call; a second failure gives the
\* error result.  A valid object is returned with its string values as written.
C9_StrictThenOneRecovery ==
    norm.done =>
        /\ Len(norm.calls) <= 2
        /\ Len(norm.calls) = 0 =>
               norm.data = ("error" :> PyStr("No valid JSON found in response"))
        /\ Len(norm.calls) >= 1 =>
               /\ Contains(sample.text, norm.calls[1])
               /\ Ch(norm.calls[1], 1) = "{"
               /\ Ch(norm.calls[1], Len(norm.calls[1])) = "}"
        /\ Len(norm.calls) = 1 =>
               /\ JsonLoads(norm.calls[1]).ok
               /\ norm.parsed
               /\ norm.data = JsonLoads(norm.calls[1]).val
        /\ Len(norm.calls) = 2 =>
               /\ ~JsonLoads(norm.calls[1]).ok
               /\ norm.calls[2] = Cleanup(norm.calls[1])
               /\ norm.parsed = JsonLoads(norm.calls[2]).ok
               /\ norm.parsed => norm.data = JsonLoads(norm.calls[2]).val
               /\ ~norm.parsed =>
                      /\ DOMAIN norm.data = {"error"}
                      /\ StartsWith(norm.data["error"].s, "JSON parsing failed: ")
        /\ (/\ sample.fence = "none"
            /\ sample.body \in ValidBodies
            /\ ~Contains(sample.body, Fence)
            /\ Plain(sample.lead)
            /\ Plain(sample.trail)) =>
               /\ norm.calls = <<sample.body>>
               /\ norm.data = ObjectOf(sample.body)

C9_Witness ==
    /\ norm.done
    /\ sample.text = "{\"a\":\"it's\",}"
    /\ norm.calls = <<"{\"a\":\"it's\",}", "{\"a\":\"it\"s\"}">>
    /\ ~norm.parsed

-----------------------------------------------------------------------------
(* Property of the assembly state machine, checked under SpecAsm *)

\* the accumulator the end handling of page result p works on
AccumulatorAtEnd(p) == IF p.isStart THEN p.fields ELSE current.fields

\* C5: when an isEnd page is consumed while an accumulator is open, the
\* completed invoice holds, for every field, the page's value if that is
\* non-null and the accumulator's previous value (or absence) otherwise.
C5_EndMergeKeepsNonNull ==
    [][ (/\ fed' = fed + 1
         /\ page'.result.ok
         /\ page'.result.isEnd
         /\ (page'.result.isStart \/ current.open)) =>
            /\ ~current'.open
            /\ Len(completed') >= 1
            /\ \A f \in AsmFieldNames :
                   LET p == page'.result
                       acc == AccumulatorAtEnd(page'.result)
                       made == completed'[Len(completed')].fields
                   IN IF f \in DOMAIN p.fields /\ p.fields[f] # PyNone
                      THEN f \in DOMAIN made /\ made[f] = p.fields[f]
                      ELSE IF f \in DOMAIN acc
                      THEN f \in DOMAIN made /\ made[f] = acc[f]
                      ELSE f \notin DOMAIN made ]_vars

C5_Witness ==
    /\ page.seen
    /\ page.result.ok
    /\ page.result.isEnd
    /\ ~page.result.isStart
    /\ page.closedByEnd
    /\ page.result.fields = ("invoiceNumber" :> PyNone) @@ ("totalAmount" :> PyNum(10))
    /\ completed = <<[fields |-> ("invoiceNumber" :> PyStr("A")) @@ ("totalAmount" :> PyNum(10)),
                     lineItems |-> <<>>]>>

====
